---------------------------- MODULE Spec2Model ----------------------------
(***************************************************************************)
(* GraphQLView of graphene_django/views.py: the construction of a view and *)
(* the handling of one HTTP request by GraphQLView.dispatch.               *)
(*                                                                         *)
(* dispatch is followed statement by statement through pc:                 *)
(*   "new"      no view yet                                                *)
(*   "ctor_failed"  __init__ raised AssertionError                         *)
(*   "idle"     a view exists, no request yet                              *)
(*   "parse"    dispatch is about to call parse_body          (line 145)   *)
(*   "graphiql" dispatch is about to compute show_graphiql    (line 146)   *)
(*   "respond"  dispatch is about to call get_response   (lines 169, 179)  *)
(*   "validate" execute_graphql_request is about to validate  (line 307)   *)
(*   "execute"  execute_graphql_request is about to execute   (line 335)   *)
(*   "build"    get_response holds an execution_result        (line 200)   *)
(*   "done"     dispatch has returned a response or raised                 *)
(*                                                                         *)
(* What the external libraries decide (json.loads, graphql's parse,        *)
(* validate, get_operation_ast, Schema.execute, the Django settings) is an *)
(* input drawn where the code reads it.  Python's None is the string       *)
(* "None"; strings stand for the request's values.                         *)
(***************************************************************************)
EXTENDS Naturals, Sequences, FiniteSets

\* The longest batch list a request body carries.
MaxBatch == 2

None == "None"

\* Python truthiness of the values used here (None and "" are falsy).
Truthy(v) == v # None /\ v # ""

\* Python's `a or b`.
Or(a, b) == IF Truthy(a) THEN a ELSE b

(***************************************************************************)
(* Request values.                                                         *)
(***************************************************************************)
Methods == {"GET", "post", "PUT", "delete"}

\* str.lower() on the methods above.
Lower(m) ==
    CASE m = "GET"    -> "get"
      [] m = "post"   -> "post"
      [] m = "PUT"    -> "put"
      [] m = "delete" -> "delete"

\* The CONTENT_TYPE header values a request carries.
ContentTypes ==
    { "application/json", "Application/JSON; charset=utf-8",
      "application/graphql", "application/x-www-form-urlencoded",
      "multipart/form-data; boundary=x", "text/plain", "" }

\* content_type.split(";", 1)[0].lower()
get_content_type(raw) ==
    CASE raw = "application/json"                  -> "application/json"
      [] raw = "Application/JSON; charset=utf-8"   -> "application/json"
      [] raw = "application/graphql"               -> "application/graphql"
      [] raw = "application/x-www-form-urlencoded" -> "application/x-www-form-urlencoded"
      [] raw = "multipart/form-data; boundary=x"   -> "multipart/form-data"
      [] raw = "text/plain"                        -> "text/plain"
      [] raw = ""                                  -> ""

(***************************************************************************)
(* GraphQL documents.  A query string is None (absent), "" (empty),        *)
(* "bad" (parse raises on it) or names a document: a sequence of           *)
(* operation definitions, each with a name and an operation type.          *)
(***************************************************************************)
Documents == {"Q", "M", "S", "QM"}

Queries == {None, "", "bad"} \cup Documents

Operations(doc) ==
    CASE doc = "Q"  -> << [name |-> None, operation |-> "query"] >>
      [] doc = "M"  -> << [name |-> None, operation |-> "mutation"] >>
      [] doc = "S"  -> << [name |-> None, operation |-> "subscription"] >>
      [] doc = "QM" -> << [name |-> "q", operation |-> "query"],
                          [name |-> "m", operation |-> "mutation"] >>

OperationNames == {None, "null", "q"}

\* graphql.get_operation_ast(document, operation_name): with no name, the
\* only operation of the document (None when there are several); with a
\* name, the operation of that name (None when there is none).  The value
\* is the operation type, or None.
get_operation_ast(doc, operation_name) ==
    LET ops == Operations(doc)
        named == { i \in 1..Len(ops) : ops[i].name = operation_name }
    IN  IF operation_name = None
        THEN IF Len(ops) = 1 THEN ops[1].operation ELSE None
        ELSE IF named = {} THEN None
             ELSE ops[CHOOSE i \in named : \A j \in named : i <= j].operation

\* The variables of a request: absent, a string holding JSON, or a string
\* that is not JSON.
Variables == {None, "{}", "{"}

IsStr(v) == v \in {"{}", "{"}

Ids == {None, "a"}


(***************************************************************************)
(* GraphQLView.__init__                                                    *)
(***************************************************************************)

\* The class attributes of GraphQLView or of a subclass of it (lines 80-87)
\* and the constructor's arguments (lines 89-98).
ClassAttrs == [graphiql : BOOLEAN, batch : BOOLEAN]
CtorArgs   == [graphiql : BOOLEAN, batch : BOOLEAN, schema_ok : BOOLEAN]

\* self.graphiql = self.graphiql or graphiql; self.batch = self.batch or batch
InitAttrs(cls, args) ==
    [graphiql |-> cls.graphiql \/ args.graphiql,
     batch    |-> cls.batch \/ args.batch]

\* The two assertions that end __init__: a Schema is required, and
\* `assert not all((graphiql, batch))` on the constructor's arguments.
InitAsserts(cls, args) ==
    args.schema_ok /\ ~(args.graphiql /\ args.batch)

(***************************************************************************)
(* HTTP responses.                                                         *)
(***************************************************************************)

\* json_encode: compact unless self.pretty, the pretty argument or the
\* request's pretty parameter asks for the sorted, indented form.  The
\* encoded text is the JSON value together with the form it is written in.
json_encode(self_pretty, pretty, get_pretty, d) ==
    [indent |-> ~(~(self_pretty \/ pretty) /\ ~get_pretty), value |-> d]

NoResponse ==
    [kind |-> "none", status |-> 0, allow |-> {}, content_type |-> None,
     body |-> json_encode(FALSE, FALSE, FALSE, << >>), exc |-> None]

\* format_error of an HttpError: {"message": str(error)}.
format_error(message) == [message |-> message]

\* HttpError(HttpResponseNotAllowed(permitted, message)) and
\* HttpError(HttpResponseBadRequest(message)) as caught by dispatch: the
\* response of the error, its Content-Type set to application/json and its
\* content to the encoding of {"errors": [format_error(e)]}.
HttpErrorResponse(e, self_pretty, get_pretty) ==
    [kind |-> "error", status |-> e.status, allow |-> e.allow,
     content_type |-> "application/json",
     body |-> json_encode(self_pretty, FALSE, get_pretty,
                          << format_error(e.message) >>),
     exc |-> None]

\* An exception that is no HttpError leaves dispatch.
Raised(exc) == [NoResponse EXCEPT !.kind = "raised", !.exc = exc]

HttpError(status, allow, message) ==
    [outcome |-> "HttpError", status |-> status, allow |-> allow,
     message |-> message]

NotAnHttpError == HttpError(0, {}, None)

\* A method check that lets PUT through as well.
MethodAllowed_mut(method) == Lower(method) \in {"get", "post", "put"}

\* request.method.lower() in ("get", "post")
MethodAllowed(method) == Lower(method) \in {"get", "post"}

(***************************************************************************)
(* parse_body                                                              *)
(***************************************************************************)

\* A request body: whether it decodes as UTF-8, what json.loads makes of
\* it ("invalid": ValueError), and the length of the list (JSON) or the
\* number of fields (form data).
Bodies ==
    [utf8 : BOOLEAN, json : {"invalid", "scalar", "object", "list"},
     len : 0..MaxBatch]

NoData == [kind |-> "none", len |-> 0]

\* What parse_body has read of the request: the content type (as
\* get_content_type gives it) and, as far as the branch taken reads them,
\* whether the body decodes ("yes", "no"), what json.loads makes of it and
\* the length of its list.  "unread" is what the branch never looks at.
NoBody == [content_type |-> None, utf8 |-> "unread", json |-> "unread", len |-> 0]

BodyRead(raw_content_type, body) ==
    LET content_type == get_content_type(raw_content_type)
    IN  CASE content_type = "application/graphql" ->
               [NoBody EXCEPT !.content_type = content_type,
                              !.utf8 = IF body.utf8 THEN "yes" ELSE "no"]
          [] content_type = "application/json" ->
               [content_type |-> content_type,
                utf8 |-> IF body.utf8 THEN "yes" ELSE "no",
                json |-> IF body.utf8 THEN body.json ELSE "unread",
                len  |-> IF body.utf8 /\ body.json = "list" THEN body.len ELSE 0]
          [] OTHER -> [NoBody EXCEPT !.content_type = content_type]

\* The assertions without the one on the empty list.
JsonShapeOk_mut(batch, body) ==
    IF batch THEN body.json = "list" ELSE body.json = "object"

\* The assertions on the decoded JSON (lines 254-264).
JsonShapeOk(batch, body) ==
    IF batch THEN body.json = "list" /\ body.len > 0
    ELSE body.json = "object"

JsonShapeMessage(batch, body) ==
    IF batch
    THEN IF body.json # "list"
         THEN "Batch requests should receive a list, but received {}."
         ELSE "Received an empty list in the batch request."
    ELSE "The received data is not a valid JSON query."

\* parse_body: the data, an HttpError, or another exception.
parse_body(batch, raw_content_type, body) ==
    LET content_type == get_content_type(raw_content_type)
        ok(kind, len) == [outcome |-> "data", data |-> [kind |-> kind, len |-> len],
                          error |-> NotAnHttpError, exc |-> None]
        bad(message)  == [outcome |-> "HttpError", data |-> NoData,
                          error |-> HttpError(400, {}, message), exc |-> None]
    IN  CASE content_type = "application/graphql" ->
               IF body.utf8 THEN ok("graphql", 1)
               ELSE [outcome |-> "raise", data |-> NoData,
                     error |-> NotAnHttpError, exc |-> "UnicodeDecodeError"]
          [] content_type = "application/json" ->
               IF ~body.utf8 THEN bad("'utf-8' codec can't decode")
               ELSE IF body.json = "invalid" THEN bad("POST body sent invalid JSON.")
               ELSE IF ~JsonShapeOk(batch, body) THEN bad(JsonShapeMessage(batch, body))
               ELSE IF body.json = "list" THEN ok("list", body.len)
               ELSE ok("object", 0)
          [] content_type \in {"application/x-www-form-urlencoded",
                               "multipart/form-data"} ->
               ok("form", body.len)
          [] OTHER -> ok("empty", 0)

(***************************************************************************)
(* GraphiQL                                                                *)
(***************************************************************************)

\* get_accepted_content_types: the Accept header's types, most preferred
\* first.
AcceptedLists ==
    { << "*/*" >>, << "text/html" >>, << "application/json" >>,
      << "text/html", "application/json" >>,
      << "application/json", "text/html" >> }

IndexOf(seq, x) == CHOOSE i \in 1..Len(seq) : seq[i] = x /\ \A j \in 1..(i-1) : seq[j] # x

Priority(accepted, x) ==
    IF \E i \in 1..Len(accepted) : accepted[i] = x
    THEN Len(accepted) + 1 - IndexOf(accepted, x)
    ELSE 0

request_wants_html(accepted) ==
    Priority(accepted, "text/html") > Priority(accepted, "application/json")

\* raw = "raw" in request.GET or "raw" in data
can_display_graphiql(raw_in_get, raw_in_data, accepted) ==
    ~(raw_in_get \/ raw_in_data) /\ request_wants_html(accepted)


(***************************************************************************)
(* get_graphql_params                                                      *)
(***************************************************************************)

\* request.GET: the URL's parameters (strings, or None when absent).
UrlParams ==
    { [query |-> None, variables |-> None, id |-> None, operationName |-> None],
      [query |-> "QM", variables |-> None, id |-> None, operationName |-> None],
      [query |-> "QM", variables |-> None, id |-> None, operationName |-> "m"],
      [query |-> None, variables |-> None, id |-> "u",  operationName |-> None],
      [query |-> "QM", variables |-> "{}", id |-> "u",  operationName |-> "m"] }

\* An entry handed to get_response: a JSON object, the form data or {} (a
\* mapping with a get method), or anything else (a list entry that is no
\* object, or a key of a mapping that a batch view iterates).
NoFields == [query |-> None, variables |-> None, id |-> None, operationName |-> None]

NonDict == [isdict |-> FALSE, f |-> NoFields]

DictEntries ==
    { [isdict |-> TRUE, f |-> f] :
        f \in [query : Queries, variables : Variables, id : Ids,
               operationName : OperationNames] }

\* The entries that the data of each kind can hold.
EntriesOf(batch, data) ==
    IF batch
    THEN IF data.kind = "list" THEN DictEntries \cup {NonDict} ELSE {NonDict}
    ELSE CASE data.kind = "object" -> DictEntries
           [] data.kind = "form" ->
                { e \in DictEntries : data.len = 0 => e.f = NoFields }
           [] data.kind = "graphql" ->
                { e \in DictEntries : e.f.query # None /\ e.f.variables = None
                    /\ e.f.id = None /\ e.f.operationName = None }
           [] OTHER -> { [isdict |-> TRUE, f |-> NoFields] }

\* `request.GET.get(k) or data.get(k)` raises AttributeError when the URL
\* gives nothing and data has no get method.
GetRaises(GET, entry, k) == ~Truthy(GET[k]) /\ ~entry.isdict

NoParams ==
    [outcome |-> "ok", query |-> None, variables |-> None,
     operation_name |-> None, id |-> None, error |-> NotAnHttpError]

get_graphql_params(GET, entry) ==
    LET query     == Or(GET.query, entry.f.query)
        variables == Or(GET.variables, entry.f.variables)
        id        == Or(GET.id, entry.f.id)
        operation_name == Or(GET.operationName, entry.f.operationName)
    IN  IF GetRaises(GET, entry, "query") \/ GetRaises(GET, entry, "variables")
           \/ GetRaises(GET, entry, "id")
        THEN [NoParams EXCEPT !.outcome = "AttributeError"]
        ELSE IF Truthy(variables) /\ IsStr(variables) /\ variables = "{"
        THEN [NoParams EXCEPT !.outcome = "HttpError",
                !.error = HttpError(400, {}, "Variables are invalid JSON.")]
        ELSE IF GetRaises(GET, entry, "operationName")
        THEN [NoParams EXCEPT !.outcome = "AttributeError"]
        ELSE [outcome |-> "ok", query |-> query,
              variables |-> IF Truthy(variables) /\ IsStr(variables)
                            THEN "dict" ELSE variables,
              operation_name |-> IF operation_name = "null" THEN None
                                 ELSE operation_name,
              id |-> id, error |-> NotAnHttpError]

(***************************************************************************)
(* execute_graphql_request                                                 *)
(***************************************************************************)

\* An operation type check that stops mutations only.
OperationRejected_mut(method, operation_ast) ==
    Lower(method) = "get" /\ operation_ast = "mutation"

\* The operation type check of a GET request (lines 292-305).
OperationRejected(method, operation_ast) ==
    Lower(method) = "get" /\ operation_ast # None /\ operation_ast # "query"

OperationRejectedMessage(operation_ast) ==
    CASE operation_ast = "mutation" ->
           "Can only perform a mutation operation from a POST request."
      [] operation_ast = "subscription" ->
           "Can only perform a subscription operation from a POST request."
      [] OTHER -> None

\* graphene_settings.ATOMIC_MUTATIONS and the connection's ATOMIC_MUTATIONS:
\* True, False, or a value that is truthy without being True.
SettingValues == {"True", "False", "1"}

\* The condition with `is True` weakened to truthiness.
UseAtomic_mut(operation_ast, graphene_atomic, connection_atomic) ==
    /\ operation_ast = "mutation"
    /\ (graphene_atomic # "False" \/ connection_atomic # "False")

\* The condition of the `with transaction.atomic()` branch (lines 327-334).
UseAtomic(operation_ast, graphene_atomic, connection_atomic) ==
    /\ operation_ast # None
    /\ operation_ast = "mutation"
    /\ (graphene_atomic = "True" \/ connection_atomic = "True")

\* The errors of an ExecutionResult: for each error, whether it carries a
\* path.
ErrorLists == { << >>, << TRUE >>, << FALSE >>, << TRUE, FALSE >> }

\* What get_response holds while it runs.  phase: how far
\* execute_graphql_request went ("parsed": the document is parsed and the
\* operation type checked; "entered": the schema is about to be executed;
\* "parse", "validate", "execute": where the returned result was made);
\* errors, data: the ExecutionResult; operation_ast, graphene_atomic,
\* connection_atomic: the operation and the settings read at lines 326-334,
\* held until the schema has been executed; atomic: execution is inside
\* transaction.atomic(); set_rollback: transaction.set_rollback(True) was
\* called; raised: the try block raised; id: the id of get_graphql_params;
\* params_ok: get_graphql_params returned.  When get_response is left by
\* an exception (phase "left" for an HttpError, "raised" for another),
\* operation_ast is the operation that the entry's document and operation
\* name select.
NoResult ==
    [phase |-> "none", errors |-> << >>, data |-> None, operation_ast |-> None,
     graphene_atomic |-> None, connection_atomic |-> None, atomic |-> FALSE,
     set_rollback |-> FALSE, raised |-> FALSE, id |-> None,
     params_ok |-> FALSE]

(***************************************************************************)
(* get_response                                                            *)
(***************************************************************************)

\* set_rollback() called for the errors only, not for the flag.
RollbackCalls_mut(flag, errors) == IF Len(errors) > 0 THEN 1 ELSE 0

\* The number of set_rollback() calls of get_response (lines 200-201 and
\* 207-208).
RollbackCalls(flag, errors) ==
    (IF flag THEN 1 ELSE 0) + (IF Len(errors) > 0 THEN 1 ELSE 0)

\* A status of 400 for any error, with a path or not.
StatusCode_mut(errors) == IF Len(errors) > 0 THEN 400 ELSE 200

\* status_code (lines 203-216).
StatusCode(errors) ==
    IF Len(errors) > 0 /\ \E i \in 1..Len(errors) : ~errors[i]
    THEN 400 ELSE 200

\* The response object (lines 205-222) and the status of get_response.
Response(batch, er) ==
    LET status_code == StatusCode(er.errors)
    IN  [has_errors |-> Len(er.errors) > 0,
         has_data   |-> status_code # 400,
         data       |-> IF status_code # 400 THEN er.data ELSE None,
         batch_keys |-> batch,
         id         |-> IF batch THEN er.id ELSE None,
         status     |-> status_code]

RECURSIVE MaxStatus(_)
MaxStatus(responses) ==
    IF Len(responses) = 1 THEN responses[1].status
    ELSE LET m == MaxStatus(Tail(responses))
         IN  IF responses[1].status >= m THEN responses[1].status ELSE m

\* responses and max(responses, key=lambda response: response[1])[1] or 200
BatchStatus(responses) ==
    IF Len(responses) = 0 THEN 200 ELSE MaxStatus(responses)


(***************************************************************************)
(* The state.                                                              *)
(***************************************************************************)
VARIABLES
    pc,             \* where the view is (see the head of the module)
    self,           \* the view's graphiql and batch attributes
    request,        \* the request's method and URL parameters (request.GET)
    flag,           \* the request's MUTATION_ERRORS_FLAG attribute is True
    data,           \* what parse_body returned: its kind and its length
    idx,            \* the number of get_response calls that have returned
    entry_ids,      \* the ids of the entries handed to get_response, in order
    responses,      \* what those calls returned, in order
    er,             \* what the running get_response call holds
    resp,           \* what dispatch returned or raised
    seen,           \* what parse_body has read of the request
    rollback_calls, \* the number of set_rollback() calls of get_response
    parsed,         \* parse_body has been called
    rendered,       \* render_graphiql has been called
    validated,      \* validate has been called
    executed        \* Schema.execute has been called

vars ==
    << pc, self, request, flag, data, idx, entry_ids, responses, er, resp, seen,
       rollback_calls, parsed, rendered, validated, executed >>

NoRequest ==
    [method |-> None,
     GET |-> [query |-> None, variables |-> None, id |-> None,
              operationName |-> None]]

Init ==
    /\ pc = "new"
    /\ self = [graphiql |-> FALSE, batch |-> FALSE]
    /\ request = NoRequest
    /\ flag = FALSE
    /\ data = NoData
    /\ idx = 0
    /\ entry_ids = << >>
    /\ responses = << >>
    /\ er = NoResult
    /\ resp = NoResponse
    /\ seen = NoBody
    /\ rollback_calls = 0
    /\ parsed = FALSE
    /\ rendered = FALSE
    /\ validated = FALSE
    /\ executed = FALSE

\* GraphQLView.__init__ of a class with the attributes cls, called with
\* args.
Construct(cls, args) ==
    /\ pc = "new"
    /\ self' = InitAttrs(cls, args)
    /\ pc' = IF InitAsserts(cls, args) THEN "idle" ELSE "ctor_failed"
    /\ UNCHANGED << request, flag, data, idx, entry_ids, responses, er, resp,
                    seen, rollback_calls, parsed, rendered, validated, executed >>

\* self.pretty and the request's pretty parameter, read by json_encode.
PrettySettings ==
    { [self_pretty |-> FALSE, get_pretty |-> FALSE],
      [self_pretty |-> TRUE,  get_pretty |-> FALSE],
      [self_pretty |-> FALSE, get_pretty |-> TRUE] }

\* dispatch catches an HttpError (lines 185-191) and returns its response.
Caught(e) ==
    \E pp \in PrettySettings :
        resp' = HttpErrorResponse(e, pp.self_pretty, pp.get_pretty)

\* dispatch, lines 137-143: the method check.
DispatchMethod(method, GET) ==
    /\ pc = "idle"
    /\ request' = [method |-> method, GET |-> GET]
    /\ IF MethodAllowed(method)
       THEN /\ pc' = "parse"
            /\ resp' = resp
       ELSE /\ pc' = "done"
            /\ Caught(HttpError(405, {"GET", "POST"},
                                "GraphQL only supports GET and POST requests."))
    /\ UNCHANGED << self, flag, data, idx, entry_ids, responses, er, seen, rollback_calls,
                    parsed, rendered, validated, executed >>

\* dispatch, line 145: data = self.parse_body(request).
DispatchParseBody(raw_content_type, body_in) ==
    /\ pc = "parse"
    /\ parsed' = TRUE
    /\ seen' = BodyRead(raw_content_type, body_in)
    /\ LET r == parse_body(self.batch, raw_content_type, body_in)
       IN  CASE r.outcome = "data" ->
                  /\ data' = r.data
                  /\ pc' = "graphiql"
                  /\ resp' = resp
             [] r.outcome = "HttpError" ->
                  /\ data' = data
                  /\ pc' = "done"
                  /\ Caught(r.error)
             [] OTHER ->
                  /\ data' = data
                  /\ pc' = "done"
                  /\ resp' = Raised(r.exc)
    /\ UNCHANGED << self, request, flag, idx, entry_ids, responses, er, rollback_calls,
                    rendered, validated, executed >>

\* dispatch, lines 146-166: show_graphiql and render_graphiql.
DispatchGraphiql(raw_in_get, raw_in_data, accepted) ==
    /\ pc = "graphiql"
    /\ data.kind = "empty" => ~raw_in_data
    /\ IF self.graphiql /\ can_display_graphiql(raw_in_get, raw_in_data, accepted)
       THEN /\ rendered' = TRUE
            /\ pc' = "done"
            /\ resp' = [NoResponse EXCEPT !.kind = "graphiql", !.status = 200,
                                          !.content_type = "text/html"]
       ELSE /\ rendered' = rendered
            /\ pc' = "respond"
            /\ resp' = resp
    /\ UNCHANGED << self, request, flag, data, idx, entry_ids, responses, er,
                    seen, rollback_calls, parsed, validated, executed >>

\* The operation that the document and the operation name of an entry
\* select, whether or not get_response comes to parse the document: None
\* when the query is no document or selects none.
SelectedOperation(GET, entry) ==
    LET query == Or(GET.query, entry.f.query)
        name  == Or(GET.operationName, entry.f.operationName)
    IN  IF query \in Documents
        THEN get_operation_ast(query, IF name = "null" THEN None ELSE name)
        ELSE None

\* The number of get_response calls dispatch makes: one for each entry of
\* data on a batch view, one otherwise.
NumCalls == IF self.batch THEN data.len ELSE 1

\* The HttpError of an entry kept among the results of the batch instead
\* of ending it.
LeaveHttpError_mut(e, locals) ==
    /\ pc' = "done"
    /\ \E pp \in PrettySettings :
          resp' = [HttpErrorResponse(e, pp.self_pretty, pp.get_pretty)
                      EXCEPT !.kind = "batch"]
    /\ responses' = responses
    /\ er' = [locals EXCEPT !.phase = "left"]

\* get_response leaves with an HttpError: dispatch ends with its response,
\* and the responses made so far are dropped with the comprehension.
LeaveHttpError(e, locals) ==
    /\ pc' = "done"
    /\ Caught(e)
    /\ responses' = << >>
    /\ er' = [locals EXCEPT !.phase = "left"]

\* get_response leaves with another exception, which leaves dispatch too.
LeaveRaised(exc, locals) ==
    /\ pc' = "done"
    /\ resp' = Raised(exc)
    /\ responses' = << >>
    /\ er' = [locals EXCEPT !.phase = "raised"]

\* get_response, lines 194-198, and execute_graphql_request, lines 282-305:
\* the parameters of the next entry, its document and the operation type
\* check.
GetResponseParams(entry) ==
    /\ pc = "respond"
    /\ idx < NumCalls
    /\ entry \in EntriesOf(self.batch, data)
    /\ entry_ids' = Append(entry_ids, entry.f.id)
    /\ LET p  == get_graphql_params(request.GET, entry)
           operation_ast == get_operation_ast(p.query, p.operation_name)
           base == [NoResult EXCEPT !.id = p.id,
                                    !.params_ok = (p.outcome = "ok")]
           left == [base EXCEPT
                      !.operation_ast = SelectedOperation(request.GET, entry)]
       IN  CASE p.outcome = "AttributeError" -> LeaveRaised("AttributeError", left)
             [] p.outcome = "HttpError" -> LeaveHttpError(p.error, left)
             [] OTHER ->
                  IF ~Truthy(p.query)
                  THEN LeaveHttpError(HttpError(400, {}, "Must provide query string."),
                                      left)
                  ELSE IF p.query = "bad"
                  THEN /\ pc' = "build"
                       /\ er' = [base EXCEPT !.phase = "parse", !.errors = << FALSE >>]
                       /\ UNCHANGED << resp, responses >>
                  ELSE IF OperationRejected(request.method, operation_ast)
                  THEN LeaveHttpError(HttpError(405, {"POST"},
                                        OperationRejectedMessage(operation_ast)),
                                      left)
                  ELSE /\ pc' = "validate"
                       /\ er' = [base EXCEPT !.phase = "parsed",
                                             !.operation_ast = operation_ast]
                       /\ UNCHANGED << resp, responses >>
    /\ UNCHANGED << self, request, flag, data, idx, seen, rollback_calls, parsed,
                    rendered, validated, executed >>

\* What Schema.execute does: it raises, or returns errors; a resolver may
\* have set the request's MUTATION_ERRORS_FLAG.  With no operation selected
\* it returns the one error of that, and no resolver runs.
ExecOutcomes(operation_ast) ==
    IF operation_ast = None
    THEN { [raises |-> FALSE, errors |-> << FALSE >>, sets_flag |-> FALSE] }
    ELSE [raises : {FALSE}, errors : ErrorLists, sets_flag : BOOLEAN]
         \cup [raises : {TRUE}, errors : {<< FALSE >>}, sets_flag : BOOLEAN]

\* execute_graphql_request, lines 307-309: validation fails.
ExecuteInvalid ==
    /\ pc = "validate"
    /\ validated' = TRUE
    /\ er' = [er EXCEPT !.phase = "validate", !.errors = << FALSE >>,
                        !.operation_ast = None]
    /\ pc' = "build"
    /\ UNCHANGED << self, request, flag, data, idx, entry_ids, responses, resp,
                    seen, rollback_calls, parsed, rendered, executed >>

\* execute_graphql_request, lines 307-335: validation passes, and the
\* operation and the settings decide whether transaction.atomic() is
\* entered.  The connection's setting is read only when graphene's is not
\* True, and neither unless the operation is a mutation.
ExecuteEnter(graphene_atomic, connection_atomic) ==
    /\ pc = "validate"
    /\ validated' = TRUE
    /\ er' = [er EXCEPT
                !.phase = "entered",
                !.graphene_atomic =
                    IF er.operation_ast = "mutation" THEN graphene_atomic ELSE None,
                !.connection_atomic =
                    IF er.operation_ast = "mutation" /\ graphene_atomic # "True"
                    THEN connection_atomic ELSE None,
                !.atomic = UseAtomic(er.operation_ast, graphene_atomic,
                                     connection_atomic)]
    /\ pc' = "execute"
    /\ UNCHANGED << self, request, flag, data, idx, entry_ids, responses, resp,
                    seen, rollback_calls, parsed, rendered, executed >>

\* Whether line 338, transaction.set_rollback(True), runs.
SetsRollback(atomic, raises, mutation_errors_flag) ==
    atomic /\ ~raises /\ mutation_errors_flag

\* execute_graphql_request, lines 335-343: self.schema.execute(**options),
\* and the `except Exception` clause when it raises.
ExecuteRun(out) ==
    /\ pc = "execute"
    /\ out \in ExecOutcomes(er.operation_ast)
    /\ executed' = TRUE
    /\ flag' = (flag \/ out.sets_flag)
    /\ er' = [er EXCEPT
                !.phase = "execute",
                !.errors = out.errors,
                !.data = IF out.raises \/ er.operation_ast = None
                         THEN None ELSE "data",
                !.operation_ast = None,
                !.graphene_atomic = None,
                !.connection_atomic = None,
                !.set_rollback = SetsRollback(er.atomic, out.raises, flag'),
                !.raised = out.raises]
    /\ pc' = "build"
    /\ UNCHANGED << self, request, data, idx, entry_ids, responses, resp, seen, rollback_calls,
                    parsed, rendered, validated >>

\* get_response, lines 200-228: the rollback requests, the status and the
\* response object.
GetResponseBuild ==
    /\ pc = "build"
    /\ rollback_calls' = rollback_calls + RollbackCalls(flag, er.errors)
    /\ responses' = Append(responses, Response(self.batch, er))
    /\ idx' = idx + 1
    /\ er' = NoResult
    /\ pc' = "respond"
    /\ UNCHANGED << self, request, flag, data, entry_ids, resp, seen, parsed, rendered,
                    validated, executed >>

\* dispatch, lines 168-183: the HttpResponse of the result or of the batch.
DispatchRespond(pp) ==
    /\ pc = "respond"
    /\ idx = NumCalls
    /\ resp' = [kind |-> IF self.batch THEN "batch" ELSE "result",
                status |-> IF self.batch THEN BatchStatus(responses)
                           ELSE responses[1].status,
                allow |-> {},
                content_type |-> "application/json",
                body |-> json_encode(pp.self_pretty, FALSE, pp.get_pretty,
                                     responses),
                exc |-> None]
    /\ pc' = "done"
    /\ UNCHANGED << self, request, flag, data, idx, entry_ids, responses, er,
                    seen, rollback_calls, parsed, rendered, validated, executed >>

Next ==
    \/ \E cls \in ClassAttrs, args \in CtorArgs : Construct(cls, args)
    \/ \E method \in Methods, GET \in UrlParams : DispatchMethod(method, GET)
    \/ \E raw_content_type \in ContentTypes, body_in \in Bodies :
          DispatchParseBody(raw_content_type, body_in)
    \/ \E raw_in_get \in BOOLEAN, raw_in_data \in BOOLEAN,
          accepted \in AcceptedLists :
          DispatchGraphiql(raw_in_get, raw_in_data, accepted)
    \/ \E entry \in DictEntries \cup {NonDict} : GetResponseParams(entry)
    \/ ExecuteInvalid
    \/ \E graphene_atomic \in SettingValues, connection_atomic \in SettingValues :
          ExecuteEnter(graphene_atomic, connection_atomic)
    \/ \E out \in [raises : BOOLEAN, errors : ErrorLists, sets_flag : BOOLEAN] :
          ExecuteRun(out)
    \/ GetResponseBuild
    \/ \E pp \in PrettySettings : DispatchRespond(pp)

Spec == Init /\ [][Next]_vars

(***************************************************************************)
(* The claims.                                                             *)
(***************************************************************************)

Done == pc = "done"

IsGet  == request.method # None /\ Lower(request.method) = "get"

NonQuery == {"mutation", "subscription"}

\* The last response get_response returned.
LastResponse == responses[Len(responses)]

\* C1: every error of a request ends as a 4xx response whose body is
\* {"errors": [...]} or inside the errors of a GraphQL result: whatever the
\* request, dispatch returns a response and no exception leaves it.
C1_NoExceptionEscapes ==
    Done =>
        /\ resp.kind \in {"error", "result", "batch", "graphiql"}
        /\ resp.kind = "error" =>
              resp.status \in 400..499 /\ Len(resp.body.value) = 1

\* C2: a request whose method is neither GET nor POST, in any case of the
\* letters, gets 405 allowing GET and POST, as application/json with the
\* body {"errors": [{"message": "GraphQL only supports GET and POST
\* requests."}]}, and for it the body is never parsed, GraphiQL never
\* rendered, the schema never validated or executed.
C2_BadMethod405 ==
    (request.method # None /\ Lower(request.method) \notin {"get", "post"}) =>
        /\ Done
        /\ resp.kind = "error"
        /\ resp.status = 405
        /\ resp.allow = {"GET", "POST"}
        /\ resp.content_type = "application/json"
        /\ resp.body.value =
              << [message |-> "GraphQL only supports GET and POST requests."] >>
        /\ ~parsed /\ ~rendered /\ ~validated /\ ~executed

C2_Witness ==
    Done /\ request.method = "PUT" /\ resp.status = 405

\* The application/json body parse_body read is malformed: not UTF-8, not
\* JSON, no object on a view without batch, no list or an empty one on a
\* batch view.
MalformedJson ==
    /\ seen.content_type = "application/json"
    /\ \/ seen.utf8 = "no"
       \/ seen.json = "invalid"
       \/ ~self.batch /\ seen.json # "object"
       \/ self.batch /\ (seen.json # "list" \/ seen.len = 0)

\* C3: a malformed application/json body is answered 400, and the schema
\* is never executed (nor validated) for the request.
C3_MalformedJson400 ==
    MalformedJson =>
        /\ Done
        /\ resp.kind = "error"
        /\ resp.status = 400
        /\ ~validated /\ ~executed

C3_Witness ==
    /\ MalformedJson /\ self.batch /\ seen.json = "list" /\ seen.len = 0
    /\ request.method = "post" /\ resp.status = 400

C5_StatusAndKeys ==
    [][ pc = "build" =>
          LET r == responses'[Len(responses')]
              no_path == \E i \in 1..Len(er.errors) : ~er.errors[i]
          IN  /\ Len(responses') = Len(responses) + 1
              /\ r.status = (IF no_path THEN 400 ELSE 200)
              /\ r.has_data <=> (r.status = 200)
              /\ r.has_errors <=> (er.errors # << >>) ]_vars

C5_Witness ==
    /\ Len(responses) > 0
    /\ LastResponse.status = 200 /\ LastResponse.has_errors
    /\ LastResponse.has_data

\* C6: get_response calls set_rollback if and only if the execution result
\* has an error or the request carries the mutation-errors flag; no other
\* step of the view calls it.
C6_RollbackIffErrorsOrFlag ==
    [][ /\ pc = "build" =>
              ((rollback_calls' > rollback_calls) <=> (er.errors # << >> \/ flag))
        /\ pc # "build" => rollback_calls' = rollback_calls ]_vars

C6_Witness ==
    /\ Len(responses) = 1 /\ ~responses[1].has_errors
    /\ flag /\ rollback_calls = 1

\* C7: on a batch view, a list of n >= 1 entries of which none triggers an
\* HTTP-level error is answered with an array of n results in the order of
\* the entries, each with the id of its entry and its own status (200 or
\* 400), and the status of the response is the greatest of them.
C7_BatchYieldsArray ==
    (Done /\ self.batch /\ data.kind = "list" /\ resp.kind # "error") =>
        LET v == resp.body.value
        IN  /\ resp.kind = "batch"
            /\ Len(v) = data.len /\ Len(entry_ids) = data.len /\ data.len >= 1
            /\ \A i \in 1..Len(v) :
                  /\ v[i].batch_keys
                  /\ v[i].id = entry_ids[i]
                  /\ v[i].status \in {200, 400}
            /\ resp.status = (IF \E i \in 1..Len(v) : v[i].status = 400
                              THEN 400 ELSE 200)

\* C8: the schema is executed inside transaction.atomic() if and only if
\* the selected operation is a mutation and graphene's ATOMIC_MUTATIONS
\* setting or the connection's is True; when the execution inside it has
\* returned, transaction.set_rollback(True) is called exactly when the
\* request carries the mutation-errors flag, and never outside it; an
\* exception raised by the execution becomes the error of the result.
C8_AtomicMutations ==
    /\ pc = "execute" =>
          (er.atomic <=>
              (er.operation_ast = "mutation"
               /\ (er.graphene_atomic = "True" \/ er.connection_atomic = "True")))
    /\ (pc = "build" /\ er.phase = "execute") =>
          /\ (er.atomic /\ ~er.raised) => (er.set_rollback <=> flag)
          /\ ~er.atomic => ~er.set_rollback
          /\ er.raised => (er.errors # << >> /\ resp.kind # "raised")

C8_Witness ==
    pc = "build" /\ er.phase = "execute" /\ er.atomic /\ er.set_rollback

\* C9: no view that __init__ has made has both graphiql and batch, so that
\* dispatch never goes through a batch on a view that can render GraphiQL.
C9_NeverGraphiqlAndBatch ==
    pc \notin {"new", "ctor_failed"} => ~(self.graphiql /\ self.batch)

\* C10: on a batch view the entries are taken in order and an HTTP-level
\* error of an entry ends dispatch with the single 4xx error object: no
\* entry after it is taken, the results of the earlier ones are dropped,
\* and what they did (the rollback requests, the flag, the execution) stays.
C10_BatchStopsAtHttpError ==
    [][ /\ pc # "done"
        /\ rollback_calls' >= rollback_calls
        /\ flag => flag'
        /\ executed => executed'
        /\ idx' \in {idx, idx + 1}
        /\ (self.batch /\ pc' = "done" /\ er'.phase = "left") =>
              /\ resp'.kind = "error"
              /\ resp'.status \in {400, 405}
              /\ Len(resp'.body.value) = 1
              /\ responses' = << >>
              /\ idx' = idx /\ idx < data.len
              /\ Len(entry_ids') = idx + 1 ]_vars

C10_Witness ==
    /\ Done /\ self.batch /\ er.phase = "left" /\ resp.kind = "error"
    /\ data.len = 2 /\ idx = 1 /\ executed /\ rollback_calls > 0

=============================================================================
